---- MODULE Spec2Model ----
(***************************************************************************)
(* The Pico proof marketplace (src/proof-marketplace/src/lib.rs): the      *)
(* request / bid / settlement ledger of PicoProofMarketplace.              *)
(*                                                                         *)
(* Every operation of the library is an operator that takes the ledger     *)
(* (self) and the caller's arguments and gives the ledger after the call   *)
(* and the value the call returns.  Ids, statuses, counters and the        *)
(* verified flag are part of the records the caller passes in: the library *)
(* stores them as given, and so does the model.                            *)
(*                                                                         *)
(* Fields the library never reads nor computes are left out of the         *)
(* records: program_hash, max_price, priority, created_at, metadata        *)
(* (ProofRequest); submitted_at (Bid); public_inputs, cycles, memory_usage,*)
(* proof_size, submitted_at (ProofResponse); name, description,            *)
(* supported_programs, performance_stats, average_generation_time, uptime, *)
(* created_at, verified and all of pricing but base_price (ProverProfile); *)
(* everything but valid (VerificationResult); last_updated, which is       *)
(* written and never read (MarketplaceStats).                              *)
(***************************************************************************)
EXTENDS Integers, Sequences, FiniteSets, TLC

VARIABLES market

vars == <<market>>

(***************************************************************************)
(* Bounds of the model.                                                    *)
(***************************************************************************)
\* submit_request, submit_bid and submit_proof are called while fewer than
\* MaxLoad requests, bids and proofs have been recorded, all together
MaxLoad == 4

\* verify_proof is called with valid = false while the prover of the proof
\* has fewer than MaxFailed proofs that are not successful; the history of
\* the registered prover holds 6 of them
MaxFailed == 7

(***************************************************************************)
(* The values the callers draw their arguments from.                       *)
(***************************************************************************)
RequestIds == {"r1", "r2"}
BidIds == {"b1", "b2"}
ProofIds == {"x1", "x2"}
ProverIds == {"p1", "p2"}
RequesterIds == {"alice", "bob"}
Backends == {"koalabear", "sp1"}

\* enum RequestStatus
RequestStatus == {"Pending", "InProgress", "Completed", "Failed", "Cancelled", "Expired"}
\* enum BidStatus
BidStatus == {"Active", "Accepted", "Rejected", "Expired", "Withdrawn"}

\* the bound of submit_bid on estimated_time.as_secs()
MaxEstimateSecs == 3600

\* the instants SystemTime::now() returns, and the deadlines around them:
\* before, at and after
Times == {1}
Deadlines == {0, 1, 2}

(***************************************************************************)
(* f64 values.  The library computes every f64 it stores as the quotient   *)
(* of two unsigned counters, rounded to an f64, times 100.0, rounded once  *)
(* more.  A value is kept here as IEEE 754 keeps it: a class, and for a    *)
(* finite value above zero the exponent exp and the 53 bits of the         *)
(* significand, the value being mant * 2^(exp - 52).  The significand is   *)
(* three limbs <<high, middle, low>> to the base 2^18, the high limb of 17 *)
(* bits with its top bit set.  No value of the library is negative.  The   *)
(* counters are below 2^13, which keeps every step of the arithmetic in    *)
(* the range of the integers at hand.                                      *)
(***************************************************************************)
Limb == 2^18

Finite(e, m) == [class |-> "finite", exp |-> e, mant |-> m]
Zero == [class |-> "zero", exp |-> 0, mant |-> <<0, 0, 0>>]
Inf == [class |-> "inf", exp |-> 0, mant |-> <<0, 0, 0>>]
NaN == [class |-> "nan", exp |-> 0, mant |-> <<0, 0, 0>>]
IsNaN(x) == x.class = "nan"

\* the significand m at exponent e, one unit in the last place higher when
\* up: the step of round-to-nearest that rounds away from zero
Rounded(e, m, up) ==
    IF ~up THEN Finite(e, m)
    ELSE IF m[3] + 1 < Limb THEN Finite(e, <<m[1], m[2], m[3] + 1>>)
    ELSE IF m[2] + 1 < Limb THEN Finite(e, <<m[1], m[2] + 1, 0>>)
    ELSE IF m[1] + 1 < 2^17 THEN Finite(e, <<m[1] + 1, 0, 0>>)
    ELSE Finite(e + 1, <<2^16, 0, 0>>)

RECURSIVE normalize(_, _, _)
\* <<a', b', e>> with a / b = (a' / b') * 2^e and 1 <= a' / b' < 2
normalize(a, b, e) ==
    IF a < b THEN normalize(2 * a, b, e - 1)
    ELSE IF a >= 2 * b THEN normalize(a, 2 * b, e + 1)
    ELSE <<a, b, e>>

\* n as f64 / d as f64: the quotient rounded to nearest, ties to even; 53
\* bits of it by long division, the remainder decides the rounding
F64(n, d) ==
    IF d = 0 THEN (IF n = 0 THEN NaN ELSE Inf)
    ELSE IF n = 0 THEN Zero
    ELSE LET s == normalize(n, d, 0)
             b == s[2]
             t2 == s[1] * 2^16
             t1 == (t2 % b) * Limb
             t0 == (t1 % b) * Limb
             up == \/ 2 * (t0 % b) > b
                   \/ 2 * (t0 % b) = b /\ (t0 \div b) % 2 = 1
         IN  Rounded(s[3], <<t2 \div b, t1 \div b, t0 \div b>>, up)

\* x * 100.0: the product of the significand and 25 in full, 57 or 58 bits,
\* cut to 53 bits and rounded to nearest, ties to even (100 = 25 * 2^2)
Times100(x) ==
    IF x.class # "finite" THEN x
    ELSE LET p0 == x.mant[3] * 25
             p1 == x.mant[2] * 25 + p0 \div Limb
             n2 == x.mant[1] * 25 + p1 \div Limb
             n1 == p1 % Limb
             n0 == p0 % Limb
             s == IF n2 < 2^21 THEN 4 ELSE 5
             k == 2^s
             r1 == n1 \div k + (n2 % k) * (Limb \div k)
             r0 == n0 \div k + (n1 % k) * (Limb \div k)
             up == \/ 2 * (n0 % k) > k
                   \/ 2 * (n0 % k) = k /\ r0 % 2 = 1
         IN  Rounded(x.exp + 2 + s, <<n2 \div k, r1, r0>>, up)

\* (a as f64 / b as f64) * 100.0
Percent(a, b) == Times100(F64(a, b))

(***************************************************************************)
(* HashMap and Result.                                                     *)
(***************************************************************************)
EmptyMap == [k \in {} |-> 0]
Insert(map, key, value) ==
    [k \in (DOMAIN map) \cup {key} |-> IF k = key THEN value ELSE map[k]]
Values(map) == {map[k] : k \in DOMAIN map}
Range(seq) == {seq[i] : i \in DOMAIN seq}

\* Result<_, String>: Ok(val) or Err(err); an error message is the sequence of
\* the pieces format! joins
Ok(v) == [ok |-> TRUE, val |-> v, err |-> <<>>]
Err(e) == [ok |-> FALSE, val |-> "", err |-> e]
Unit == "()"

\* the error strings of the library, under the names the design gives them
AlreadyRegistered == <<"Prover already registered">>
NoBackends == <<"Prover must support at least one backend">>
InvalidDeadline == <<"Deadline must be in the future">>
EmptyInput == <<"Input data cannot be empty">>
NoEligibleProver(backend) == <<"No provers available for backend: ", backend>>
RequestNotFound == <<"Request not found">>
RequestClosed == <<"Request is no longer accepting bids">>
EstimateTooLong == <<"Estimated time too long">>
NoBidsFound == <<"No bids found for request">>
BidNotFound == <<"Bid not found">>
RequestNotInProgress == <<"Request is not in progress">>
EmptyProof == <<"Proof data cannot be empty">>
ProofNotFound == <<"Proof not found">>
Unauthorized == <<"Unauthorized">>
InvalidState == <<"Cannot cancel request in current status">>

\* the value a call returns, beside the ledger it leaves
Return(self, res) == [self |-> self, res |-> res]

(***************************************************************************)
(* PicoProofMarketplace::new                                               *)
(***************************************************************************)
new ==
    [requests |-> EmptyMap,
     responses |-> EmptyMap,
     provers |-> EmptyMap,
     bids |-> EmptyMap,
     verifications |-> EmptyMap,
     stats |-> [total_requests |-> 0,
                total_proofs_generated |-> 0,
                active_provers |-> 0,
                average_proof_time |-> 0,
                average_price |-> 0,
                total_volume |-> 0,
                success_rate |-> F64(0, 1)]]

(***************************************************************************)
(* Durations.  estimated_time is kept in milliseconds, generation_time and *)
(* average_proof_time in nanoseconds (Duration / u32 rounds down to the    *)
(* nanosecond).                                                            *)
(***************************************************************************)
\* Duration::as_secs of a duration in milliseconds
as_secs(ms) == ms \div 1000

RECURSIVE Sum(_, _)
\* Iterator::sum of f over the keys S
Sum(f, S) ==
    IF S = {} THEN 0
    ELSE LET k == CHOOSE x \in S : TRUE IN f[k] + Sum(f, S \ {k})

(***************************************************************************)
(* fn update_stats                                                         *)
(***************************************************************************)
\* update_stats with the mean price rounded up
update_stats_price_up(self) ==
    LET rs == self.responses
        n == Cardinality(DOMAIN rs)
        total_time == Sum([k \in DOMAIN rs |-> rs[k].generation_time], DOMAIN rs)
        total_price == Sum([k \in DOMAIN rs |-> rs[k].price], DOMAIN rs)
        verified_count == Cardinality({k \in DOMAIN rs : rs[k].verified})
    IN  IF n # 0
        THEN [self EXCEPT !.stats.average_proof_time = total_time \div n,
                          !.stats.average_price = (total_price + n - 1) \div n,
                          !.stats.success_rate = Percent(verified_count, n)]
        ELSE self

update_stats(self) ==
    LET rs == self.responses
        n == Cardinality(DOMAIN rs)
        total_time == Sum([k \in DOMAIN rs |-> rs[k].generation_time], DOMAIN rs)
        total_price == Sum([k \in DOMAIN rs |-> rs[k].price], DOMAIN rs)
        verified_count == Cardinality({k \in DOMAIN rs : rs[k].verified})
    IN  IF n # 0
        THEN [self EXCEPT !.stats.average_proof_time = total_time \div n,
                          !.stats.average_price = total_price \div n,
                          !.stats.success_rate = Percent(verified_count, n)]
        ELSE self

\* register_prover that leaves the count of the active provers as it was
register_prover_no_count(self, profile) ==
    IF profile.id \in DOMAIN self.provers
    THEN Return(self, Err(AlreadyRegistered))
    ELSE IF profile.supported_backends = <<>>
    THEN Return(self, Err(NoBackends))
    ELSE Return([self EXCEPT !.provers = Insert(self.provers, profile.id, profile)],
                Ok(Unit))

\* register_prover with the two checks in the other order
register_prover_backends_first(self, profile) ==
    IF profile.supported_backends = <<>>
    THEN Return(self, Err(NoBackends))
    ELSE IF profile.id \in DOMAIN self.provers
    THEN Return(self, Err(AlreadyRegistered))
    ELSE LET provers == Insert(self.provers, profile.id, profile)
         IN  Return([self EXCEPT !.provers = provers,
                                 !.stats.active_provers = Cardinality(DOMAIN provers)],
                    Ok(Unit))

(***************************************************************************)
(* pub fn register_prover                                                  *)
(***************************************************************************)
register_prover(self, profile) ==
    IF profile.id \in DOMAIN self.provers
    THEN Return(self, Err(AlreadyRegistered))
    ELSE IF profile.supported_backends = <<>>
    THEN Return(self, Err(NoBackends))
    ELSE LET provers == Insert(self.provers, profile.id, profile)
         IN  Return([self EXCEPT !.provers = provers,
                                 !.stats.active_provers = Cardinality(DOMAIN provers)],
                    Ok(Unit))

\* submit_request with the deadline compared by < in place of <=
submit_request_deadline_lt(self, request, t) ==
    IF request.deadline < t
    THEN Return(self, Err(InvalidDeadline))
    ELSE IF request.input_data = <<>>
    THEN Return(self, Err(EmptyInput))
    ELSE IF {p \in DOMAIN self.provers :
                request.backend \in Range(self.provers[p].supported_backends)} = {}
    THEN Return(self, Err(NoEligibleProver(request.backend)))
    ELSE Return([self EXCEPT !.requests = Insert(self.requests, request.id, request),
                             !.stats.total_requests = @ + 1],
                Ok(request.id))

(***************************************************************************)
(* pub fn submit_request; t is what SystemTime::now() returns              *)
(***************************************************************************)
submit_request(self, request, t) ==
    IF request.deadline <= t
    THEN Return(self, Err(InvalidDeadline))
    ELSE IF request.input_data = <<>>
    THEN Return(self, Err(EmptyInput))
    ELSE IF {p \in DOMAIN self.provers :
                request.backend \in Range(self.provers[p].supported_backends)} = {}
    THEN Return(self, Err(NoEligibleProver(request.backend)))
    ELSE Return([self EXCEPT !.requests = Insert(self.requests, request.id, request),
                             !.stats.total_requests = @ + 1],
                Ok(request.id))

(***************************************************************************)
(* pub fn submit_bid                                                       *)
(***************************************************************************)
submit_bid(self, bid) ==
    IF bid.request_id \notin DOMAIN self.requests
    THEN Return(self, Err(RequestNotFound))
    ELSE IF self.requests[bid.request_id].status # "Pending"
    THEN Return(self, Err(RequestClosed))
    ELSE IF as_secs(bid.estimated_time) > MaxEstimateSecs
    THEN Return(self, Err(EstimateTooLong))
    ELSE LET bids == IF bid.request_id \in DOMAIN self.bids
                     THEN self.bids[bid.request_id] ELSE <<>>
         IN  Return([self EXCEPT !.bids = Insert(self.bids, bid.request_id,
                                                 Append(bids, bid))],
                    Ok(bid.id))

(***************************************************************************)
(* pub fn accept_bid                                                       *)
(***************************************************************************)
\* bids.iter_mut().find(|b| b.id == bid_id): the first position, 0 for None
find(bids, bid_id) ==
    IF \E i \in DOMAIN bids : bids[i].id = bid_id
    THEN CHOOSE i \in DOMAIN bids :
            /\ bids[i].id = bid_id
            /\ \A j \in DOMAIN bids : bids[j].id = bid_id => i <= j
    ELSE 0

\* the bid list after the found bid is accepted and the loop over the others
reject_others(bids, found, bid_id) ==
    [i \in DOMAIN bids |->
        IF bids[i].id # bid_id THEN [bids[i] EXCEPT !.status = "Rejected"]
        ELSE IF i = found THEN [bids[i] EXCEPT !.status = "Accepted"]
        ELSE bids[i]]

\* accept_bid with no check of the status of the request
accept_bid_any_status(self, request_id, bid_id) ==
    IF request_id \notin DOMAIN self.requests
    THEN Return(self, Err(RequestNotFound))
    ELSE IF request_id \notin DOMAIN self.bids
    THEN Return(self, Err(NoBidsFound))
    ELSE IF find(self.bids[request_id], bid_id) = 0
    THEN Return(self, Err(BidNotFound))
    ELSE LET bids == self.bids[request_id]
         IN  Return([self EXCEPT
                        !.requests[request_id].status = "InProgress",
                        !.bids[request_id] =
                            reject_others(bids, find(bids, bid_id), bid_id)],
                    Ok(Unit))

\* accept_bid with the request set InProgress before the bid is looked up
accept_bid_status_first(self, request_id, bid_id) ==
    IF request_id \notin DOMAIN self.requests
    THEN Return(self, Err(RequestNotFound))
    ELSE IF self.requests[request_id].status # "Pending"
    THEN Return(self, Err(RequestClosed))
    ELSE LET started == [self EXCEPT !.requests[request_id].status = "InProgress"]
         IN  IF request_id \notin DOMAIN self.bids
             THEN Return(started, Err(NoBidsFound))
             ELSE IF find(self.bids[request_id], bid_id) = 0
             THEN Return(started, Err(BidNotFound))
             ELSE Return([started EXCEPT
                             !.bids[request_id] =
                                 reject_others(self.bids[request_id],
                                               find(self.bids[request_id], bid_id),
                                               bid_id)],
                         Ok(Unit))

accept_bid(self, request_id, bid_id) ==
    IF request_id \notin DOMAIN self.requests
    THEN Return(self, Err(RequestNotFound))
    ELSE IF self.requests[request_id].status # "Pending"
    THEN Return(self, Err(RequestClosed))
    ELSE IF request_id \notin DOMAIN self.bids
    THEN Return(self, Err(NoBidsFound))
    ELSE IF find(self.bids[request_id], bid_id) = 0
    THEN Return(self, Err(BidNotFound))
    ELSE LET bids == self.bids[request_id]
         IN  Return([self EXCEPT
                        !.requests[request_id].status = "InProgress",
                        !.bids[request_id] =
                            reject_others(bids, find(bids, bid_id), bid_id)],
                    Ok(Unit))

(***************************************************************************)
(* pub fn submit_proof                                                     *)
(***************************************************************************)
\* credit_prover without the increment of successful_proofs
credit_prover_total_only(prover) ==
    [prover EXCEPT !.total_proofs = @ + 1,
                   !.reputation_score =
                        Percent(prover.successful_proofs, prover.total_proofs + 1)]

\* the prover's counters after one more proof (lines 287-291)
credit_prover(prover) ==
    [prover EXCEPT !.total_proofs = @ + 1,
                   !.successful_proofs = @ + 1,
                   !.reputation_score =
                        Percent(prover.successful_proofs + 1, prover.total_proofs + 1)]

\* submit_proof with the proof data checked before the status of the request
submit_proof_data_first(self, response) ==
    IF response.request_id \notin DOMAIN self.requests
    THEN Return(self, Err(RequestNotFound))
    ELSE IF response.proof_data = <<>>
    THEN Return(self, Err(EmptyProof))
    ELSE IF self.requests[response.request_id].status # "InProgress"
    THEN Return(self, Err(RequestNotInProgress))
    ELSE LET stored == [self EXCEPT
                           !.responses = Insert(self.responses, response.id, response),
                           !.stats.total_proofs_generated = @ + 1,
                           !.stats.total_volume = @ + response.price,
                           !.requests[response.request_id].status = "Completed"]
             credited == IF response.prover_id \in DOMAIN self.provers
                         THEN [stored EXCEPT !.provers[response.prover_id] =
                                                credit_prover(@)]
                         ELSE stored
         IN  Return(update_stats(credited), Ok(response.id))

\* submit_proof that turns away a proof for a request whose deadline passed
submit_proof_in_time(self, response) ==
    IF response.request_id \notin DOMAIN self.requests
    THEN Return(self, Err(RequestNotFound))
    ELSE IF self.requests[response.request_id].status # "InProgress"
    THEN Return(self, Err(RequestNotInProgress))
    ELSE IF \E t \in Times : self.requests[response.request_id].deadline <= t
    THEN Return(self, Err(InvalidDeadline))
    ELSE IF response.proof_data = <<>>
    THEN Return(self, Err(EmptyProof))
    ELSE LET stored == [self EXCEPT
                           !.responses = Insert(self.responses, response.id, response),
                           !.stats.total_proofs_generated = @ + 1,
                           !.stats.total_volume = @ + response.price,
                           !.requests[response.request_id].status = "Completed"]
             credited == IF response.prover_id \in DOMAIN self.provers
                         THEN [stored EXCEPT !.provers[response.prover_id] =
                                                credit_prover(@)]
                         ELSE stored
         IN  Return(update_stats(credited), Ok(response.id))

\* submit_proof that takes proofs of registered provers alone
submit_proof_registered_only(self, response) ==
    IF response.request_id \notin DOMAIN self.requests
    THEN Return(self, Err(RequestNotFound))
    ELSE IF self.requests[response.request_id].status # "InProgress"
    THEN Return(self, Err(RequestNotInProgress))
    ELSE IF response.proof_data = <<>>
    THEN Return(self, Err(EmptyProof))
    ELSE IF response.prover_id \notin DOMAIN self.provers
    THEN Return(self, Err(RequestNotFound))
    ELSE Return(update_stats(
                    [self EXCEPT
                        !.responses = Insert(self.responses, response.id, response),
                        !.stats.total_proofs_generated = @ + 1,
                        !.stats.total_volume = @ + response.price,
                        !.requests[response.request_id].status = "Completed",
                        !.provers[response.prover_id] = credit_prover(@)]),
                Ok(response.id))

submit_proof(self, response) ==
    IF response.request_id \notin DOMAIN self.requests
    THEN Return(self, Err(RequestNotFound))
    ELSE IF self.requests[response.request_id].status # "InProgress"
    THEN Return(self, Err(RequestNotInProgress))
    ELSE IF response.proof_data = <<>>
    THEN Return(self, Err(EmptyProof))
    ELSE LET stored == [self EXCEPT
                           !.responses = Insert(self.responses, response.id, response),
                           !.stats.total_proofs_generated = @ + 1,
                           !.stats.total_volume = @ + response.price,
                           !.requests[response.request_id].status = "Completed"]
             credited == IF response.prover_id \in DOMAIN self.provers
                         THEN [stored EXCEPT !.provers[response.prover_id] =
                                                credit_prover(@)]
                         ELSE stored
         IN  Return(update_stats(credited), Ok(response.id))

(***************************************************************************)
(* pub fn verify_proof                                                     *)
(***************************************************************************)
\* x - 1 with no floor: below zero, where a u64 wraps
wrapping_sub(x) == x - 1

\* u64::saturating_sub(x, 1)
saturating_sub(x) == IF x = 0 THEN 0 ELSE x - 1

\* settle_prover that gives a successful proof back on a valid outcome
settle_prover_restoring(prover, verified) ==
    LET successful == IF ~verified THEN saturating_sub(prover.successful_proofs)
                      ELSE prover.successful_proofs + 1
    IN  [prover EXCEPT !.successful_proofs = successful,
                       !.reputation_score = Percent(successful, prover.total_proofs)]

\* settle_prover with the decrement on a valid outcome
settle_prover_inverted(prover, verified) ==
    LET successful == IF verified THEN saturating_sub(prover.successful_proofs)
                      ELSE prover.successful_proofs
    IN  [prover EXCEPT !.successful_proofs = successful,
                       !.reputation_score = Percent(successful, prover.total_proofs)]

\* the prover's counters after a verification outcome (lines 305-310)
settle_prover(prover, verified) ==
    LET successful == IF ~verified THEN saturating_sub(prover.successful_proofs)
                      ELSE prover.successful_proofs
    IN  [prover EXCEPT !.successful_proofs = successful,
                       !.reputation_score = Percent(successful, prover.total_proofs)]

\* verify_proof that applies the first outcome of a proof only
verify_proof_once(self, proof_id, result) ==
    IF proof_id \notin DOMAIN self.responses
    THEN Return(self, Err(ProofNotFound))
    ELSE IF proof_id \in DOMAIN self.verifications
    THEN Return(self, Ok(Unit))
    ELSE LET prover_id == self.responses[proof_id].prover_id
             recorded == [self EXCEPT
                             !.responses[proof_id].verified = result.valid,
                             !.verifications = Insert(self.verifications, proof_id, result)]
             settled == IF prover_id \in DOMAIN self.provers
                        THEN [recorded EXCEPT !.provers[prover_id] =
                                                 settle_prover(@, result.valid)]
                        ELSE recorded
         IN  Return(update_stats(settled), Ok(Unit))

verify_proof(self, proof_id, result) ==
    IF proof_id \notin DOMAIN self.responses
    THEN Return(self, Err(ProofNotFound))
    ELSE LET prover_id == self.responses[proof_id].prover_id
             recorded == [self EXCEPT
                             !.responses[proof_id].verified = result.valid,
                             !.verifications = Insert(self.verifications, proof_id, result)]
             settled == IF prover_id \in DOMAIN self.provers
                        THEN [recorded EXCEPT !.provers[prover_id] =
                                                 settle_prover(@, result.valid)]
                        ELSE recorded
         IN  Return(update_stats(settled), Ok(Unit))

(***************************************************************************)
(* pub fn cancel_request                                                   *)
(***************************************************************************)
\* cancel_request that cancels a request in any status
cancel_request_any_status(self, request_id, requester_id) ==
    IF request_id \notin DOMAIN self.requests
    THEN Return(self, Err(RequestNotFound))
    ELSE IF self.requests[request_id].requester_id # requester_id
    THEN Return(self, Err(Unauthorized))
    ELSE Return([self EXCEPT !.requests[request_id].status = "Cancelled"], Ok(Unit))

\* cancel_request that rejects the bids of the request it cancels
cancel_request_rejecting_bids(self, request_id, requester_id) ==
    IF request_id \notin DOMAIN self.requests
    THEN Return(self, Err(RequestNotFound))
    ELSE IF self.requests[request_id].requester_id # requester_id
    THEN Return(self, Err(Unauthorized))
    ELSE IF self.requests[request_id].status \notin {"Pending", "InProgress"}
    THEN Return(self, Err(InvalidState))
    ELSE LET cancelled == [self EXCEPT !.requests[request_id].status = "Cancelled"]
         IN  Return(IF request_id \in DOMAIN self.bids
                    THEN [cancelled EXCEPT !.bids[request_id] =
                             [i \in DOMAIN @ |-> [@[i] EXCEPT !.status = "Rejected"]]]
                    ELSE cancelled,
                    Ok(Unit))

cancel_request_status_first(self, request_id, requester_id) ==
    IF request_id \notin DOMAIN self.requests
    THEN Return(self, Err(RequestNotFound))
    ELSE IF self.requests[request_id].status \notin {"Pending", "InProgress"}
    THEN Return(self, Err(InvalidState))
    ELSE IF self.requests[request_id].requester_id # requester_id
    THEN Return(self, Err(Unauthorized))
    ELSE Return([self EXCEPT !.requests[request_id].status = "Cancelled"], Ok(Unit))

cancel_request(self, request_id, requester_id) ==
    IF request_id \notin DOMAIN self.requests
    THEN Return(self, Err(RequestNotFound))
    ELSE IF self.requests[request_id].requester_id # requester_id
    THEN Return(self, Err(Unauthorized))
    ELSE IF self.requests[request_id].status \notin {"Pending", "InProgress"}
    THEN Return(self, Err(InvalidState))
    ELSE Return([self EXCEPT !.requests[request_id].status = "Cancelled"], Ok(Unit))

\* pub fn get_request_status: None is the empty sequence
get_request_status(self, request_id) ==
    IF request_id \in DOMAIN self.requests
    THEN <<self.requests[request_id].status>> ELSE <<>>

(***************************************************************************)
(* The read-only queries.  A Vec is a sequence, an Option the empty        *)
(* sequence or a sequence of one value.  A call that panics returns no     *)
(* value: Done(v) is a call that returns v, Panicked one that unwinds.     *)
(***************************************************************************)
Done(v) == [panic |-> FALSE, val |-> v]
Panicked == [panic |-> TRUE, val |-> <<>>]

\* f64 < f64: false when either side is NaN
Lt(a, b) ==
    IF IsNaN(a) \/ IsNaN(b) THEN FALSE
    ELSE IF a.class = "inf" \/ b.class = "zero" THEN FALSE
    ELSE IF b.class = "inf" \/ a.class = "zero" THEN TRUE
    ELSE \/ a.exp < b.exp
         \/ /\ a.exp = b.exp
            /\ \/ a.mant[1] < b.mant[1]
               \/ a.mant[1] = b.mant[1] /\ a.mant[2] < b.mant[2]
               \/ a.mant[1] = b.mant[1] /\ a.mant[2] = b.mant[2]
                      /\ a.mant[3] < b.mant[3]

\* f64::partial_cmp: None when either side is NaN
partial_cmp(a, b) ==
    IF IsNaN(a) \/ IsNaN(b) THEN "None"
    ELSE IF Lt(a, b) THEN "Less"
    ELSE IF Lt(b, a) THEN "Greater"
    ELSE "Equal"

\* Ord::cmp of two integers, and Ordering::then_with
cmp(a, b) == IF a < b THEN "Less" ELSE IF a > b THEN "Greater" ELSE "Equal"
then_with(first, second) == IF first = "Equal" THEN second ELSE first

RECURSIVE insert_tail(_, _, _)
\* one pass of the insertion sort of slice::sort_by: x moves left past
\* every element it is Less than; compare[<<a, b>>] is what the closure
\* returns for (a, b), "None" where it unwinds
insert_tail(sorted, x, compare) ==
    IF sorted.panic THEN Panicked
    ELSE IF sorted.val = <<>> THEN Done(<<x>>)
    ELSE LET last == sorted.val[Len(sorted.val)]
             front == SubSeq(sorted.val, 1, Len(sorted.val) - 1)
         IN  IF compare[<<x, last>>] = "None" THEN Panicked
             ELSE IF compare[<<x, last>>] = "Less"
             THEN LET moved == insert_tail(Done(front), x, compare)
                  IN  IF moved.panic THEN Panicked
                      ELSE Done(Append(moved.val, last))
             ELSE Done(Append(sorted.val, x))

RECURSIVE sort_by(_, _)
\* slice::sort_by: stable, and for a slice this short an insertion sort
sort_by(v, compare) ==
    IF v = <<>> THEN Done(<<>>)
    ELSE insert_tail(sort_by(SubSeq(v, 1, Len(v) - 1), compare), v[Len(v)], compare)

\* the closure of get_best_bids with the price alone
bid_order_price_only(a, b) == cmp(a.price, b.price)

\* the closure of get_best_bids (line 321)
bid_order(a, b) ==
    then_with(cmp(a.price, b.price), cmp(a.estimated_time, b.estimated_time))

\* Iterator::take
take(v, count) == SubSeq(v, 1, IF count < Len(v) THEN count ELSE Len(v))

\* pub fn get_best_bids
get_best_bids(self, request_id, count) ==
    IF request_id \notin DOMAIN self.bids THEN <<>>
    ELSE LET bids == self.bids[request_id]
             compare == [pair \in Range(bids) \X Range(bids) |->
                            bid_order(pair[1], pair[2])]
         IN  take(sort_by(bids, compare).val, count)

\* the closure of get_prover_rankings (lines 331-332); a and b are pairs
\* of a prover id and its profile
ranking_order(a, b) ==
    LET by_score == partial_cmp(b[2].reputation_score, a[2].reputation_score)
    IN  IF by_score = "None" THEN "None"
        ELSE then_with(by_score, cmp(b[2].successful_proofs, a[2].successful_proofs))

\* pub fn get_prover_rankings; iter is the order in which the HashMap of
\* the provers hands out its keys
get_prover_rankings(self, iter) ==
    LET rankings == [i \in DOMAIN iter |-> <<iter[i], self.provers[iter[i]]>>]
        compare == [pair \in Range(rankings) \X Range(rankings) |->
                       ranking_order(pair[1], pair[2])]
    IN  sort_by(rankings, compare)

\* the closure of search_provers (lines 343-360)
matches(p, backend, max_price, min_reputation) ==
    IF backend # <<>> /\ backend[1] \notin Range(p.supported_backends) THEN FALSE
    ELSE IF max_price # <<>> /\ p.base_price > max_price[1] THEN FALSE
    ELSE IF min_reputation # <<>> /\ Lt(p.reputation_score, min_reputation[1]) THEN FALSE
    ELSE TRUE

RECURSIVE filter(_, _, _, _, _, _)
\* Iterator::filter(..).collect() over provers.values() in the order iter
filter(self, iter, i, backend, max_price, min_reputation) ==
    IF i > Len(iter) THEN <<>>
    ELSE LET p == self.provers[iter[i]]
             rest == filter(self, iter, i + 1, backend, max_price, min_reputation)
         IN  IF matches(p, backend, max_price, min_reputation)
             THEN <<p>> \o rest ELSE rest

\* pub fn search_provers
search_provers(self, iter, backend, max_price, min_reputation) ==
    filter(self, iter, 1, backend, max_price, min_reputation)

\* the orders in which a HashMap with the keys S can hand them out
IterOrders(S) ==
    {o \in [1 .. Cardinality(S) -> S] : \A i, j \in DOMAIN o : o[i] = o[j] => i = j}

(***************************************************************************)
(* The arguments of the calls.  The ...Inputs sets are the arguments the   *)
(* callers of the state machine pass; the Any... sets add the arguments    *)
(* that differ from them only in what the library rejects or ignores, and  *)
(* are what the properties of a single call range over.                    *)
(***************************************************************************)
\* a profile is stored as the caller built it, history and all.  The
\* command line registers a newcomer (reputation 100.0, no proofs) and a
\* prover with a history: reputation 98.5, 1250 proofs, 1244 of them
\* successful.  The score of that history is not the ratio of its counters,
\* which is 99.52
Histories ==
    {[reputation_score |-> F64(100, 1), total_proofs |-> 0,
      successful_proofs |-> 0],
     [reputation_score |-> F64(197, 2), total_proofs |-> 1250,
      successful_proofs |-> 1244]}

Profile(id, backends, h) ==
    [id |-> id,
     supported_backends |-> backends,
     base_price |-> 100,
     reputation_score |-> h.reputation_score,
     total_proofs |-> h.total_proofs,
     successful_proofs |-> h.successful_proofs]

\* "p1" comes with the history, the other provers are newcomers
ProfileInputs ==
    {Profile(x[1], <<"koalabear">>, x[2]) : x \in
        {x \in ProverIds \X Histories :
            (x[1] = "p1") = (x[2].total_proofs > 0)}}

AnyProfile ==
    {Profile(x[1], x[2], x[3]) : x \in
        ProverIds \X {<<>>, <<"koalabear">>, <<"koalabear", "sp1">>}
                  \X Histories}

RequestInputs ==
    [id : RequestIds,
     requester_id : {"alice"},
     input_data : {<<1>>},
     backend : {"koalabear"},
     deadline : {2},
     status : {"Pending", "InProgress"}]

AnyRequest ==
    [id : RequestIds,
     requester_id : {"alice"},
     input_data : {<<>>, <<1>>},
     backend : Backends,
     deadline : Deadlines,
     status : {"Pending", "InProgress", "Expired"}]

BidInputs ==
    [id : BidIds,
     request_id : RequestIds,
     prover_id : {"p1"},
     price : {100},
     estimated_time : {3600000},
     status : {"Active", "Accepted"}]

AnyBid ==
    [id : BidIds,
     request_id : RequestIds,
     prover_id : {"p1"},
     price : {100},
     estimated_time : {3600000, 3600999, 3601000},
     status : BidStatus]

ResponseInputs ==
    [id : ProofIds,
     request_id : RequestIds,
     prover_id : ProverIds,
     proof_data : {<<1>>},
     generation_time : {3},
     price : {100},
     verified : {FALSE}]

AnyResponse ==
    [id : ProofIds,
     request_id : RequestIds,
     prover_id : ProverIds,
     proof_data : {<<>>, <<1>>},
     generation_time : {3},
     price : {100},
     verified : BOOLEAN]

VerificationInputs == [valid : BOOLEAN]

(***************************************************************************)
(* The state machine: the ledger.  Each action is one call; a call that    *)
(* returns an error leaves the ledger as it was.  SystemTime::now() is the *)
(* wall clock, which submit_request reads once for the deadline and never  *)
(* compares with an earlier reading: each call draws its instant.          *)
(***************************************************************************)
\* the requests, bids and proofs recorded so far
Load(self) ==
    self.stats.total_requests + self.stats.total_proofs_generated
        + Sum([k \in DOMAIN self.bids |-> Len(self.bids[k])], DOMAIN self.bids)

Init == market = new

RegisterProver ==
    \E profile \in ProfileInputs :
        market' = register_prover(market, profile).self

SubmitRequest ==
    /\ Load(market) < MaxLoad
    /\ \E request \in RequestInputs, t \in Times :
        market' = submit_request(market, request, t).self

SubmitBid ==
    /\ Load(market) < MaxLoad
    /\ \E bid \in BidInputs :
        market' = submit_bid(market, bid).self

AcceptBid ==
    \E request_id \in RequestIds, bid_id \in BidIds :
        market' = accept_bid(market, request_id, bid_id).self

SubmitProof ==
    /\ Load(market) < MaxLoad
    /\ \E response \in ResponseInputs :
        market' = submit_proof(market, response).self

\* the proofs that are not successful of the prover of the proof, 0 when
\* the proof or the prover is not stored
Failed(self, proof_id) ==
    IF proof_id \notin DOMAIN self.responses THEN 0
    ELSE LET P == self.responses[proof_id].prover_id
         IN  IF P \notin DOMAIN self.provers THEN 0
             ELSE self.provers[P].total_proofs - self.provers[P].successful_proofs

VerifyProof ==
    \E proof_id \in ProofIds, result \in VerificationInputs :
        /\ result.valid \/ Failed(market, proof_id) < MaxFailed
        /\ market' = verify_proof(market, proof_id, result).self

CancelRequest ==
    \E request_id \in RequestIds, requester_id \in RequesterIds :
        market' = cancel_request(market, request_id, requester_id).self

Next ==
    \/ RegisterProver
    \/ SubmitRequest
    \/ SubmitBid
    \/ AcceptBid
    \/ SubmitProof
    \/ VerifyProof
    \/ CancelRequest

Spec == Init /\ [][Next]_vars

(***************************************************************************)
(* Vocabulary of the properties.                                           *)
(***************************************************************************)
\* the status edges of the request state machine
StatusEdges ==
    {<<"Pending", "InProgress">>, <<"InProgress", "Completed">>,
     <<"Pending", "Cancelled">>, <<"InProgress", "Cancelled">>}

\* the positions of the bids of request R with status st, in ledger self
BidsWith(self, R, st) ==
    IF R \in DOMAIN self.bids
    THEN {i \in DOMAIN self.bids[R] : self.bids[R][i].status = st}
    ELSE {}

\* the ids of the responses stored for request R
ResponsesOf(self, R) ==
    {k \in DOMAIN self.responses : self.responses[k].request_id = R}

\* successful_proofs / total_proofs * 100, and 0 when total_proofs = 0
ReputationOf(prover) ==
    IF prover.total_proofs = 0 THEN F64(0, 1)
    ELSE Percent(prover.successful_proofs, prover.total_proofs)

(***************************************************************************)
(* C1: the status of a stored request changes only along Pending ->        *)
(* InProgress, InProgress -> Completed, Pending -> Cancelled and           *)
(* InProgress -> Cancelled, whatever the call; the request stays stored.   *)
(***************************************************************************)
C1_StatusEdgesOnly ==
    [][\A id \in DOMAIN market.requests :
          /\ id \in DOMAIN market'.requests
          /\ \/ market'.requests[id].status = market.requests[id].status
             \/ <<market.requests[id].status, market'.requests[id].status>>
                    \in StatusEdges]_vars

(***************************************************************************)
(* C2: after a successful accept_bid(R, B) exactly one bid of R is         *)
(* Accepted and it is the bid B, every other bid of R is Rejected, R is    *)
(* InProgress, and the bids of every other request are as before.          *)
(***************************************************************************)
C2_AcceptExactlyOne ==
    \A R \in RequestIds, B \in BidIds :
        LET r == accept_bid(market, R, B)
            after == r.self
        IN  r.res.ok =>
                /\ Cardinality(BidsWith(after, R, "Accepted")) = 1
                /\ \A i \in DOMAIN after.bids[R] :
                      IF i \in BidsWith(after, R, "Accepted")
                      THEN after.bids[R][i].id = B
                      ELSE after.bids[R][i].status = "Rejected"
                /\ after.requests[R].status = "InProgress"
                /\ \A Q \in DOMAIN market.bids \ {R} :
                      Q \in DOMAIN after.bids /\ after.bids[Q] = market.bids[Q]

(***************************************************************************)
(* C3: at most one bid of a request is ever Accepted: no step leaves two   *)
(* Accepted bids on a request, and once the bid at one position of R is    *)
(* Accepted no bid at another position of R is Accepted afterwards.        *)
(***************************************************************************)
C3_OneAcceptedEver ==
    [][\A R \in DOMAIN market'.bids :
          \A i \in BidsWith(market, R, "Accepted") \cup BidsWith(market', R, "Accepted") :
              \A j \in BidsWith(market', R, "Accepted") : i = j]_vars

(***************************************************************************)
(* C4: right after a successful submit_proof the request of the response   *)
(* is Completed and exactly one stored response carries its request id.    *)
(***************************************************************************)
C4_ProofCompletesWithOneResponse ==
    \A response \in AnyResponse :
        LET r == submit_proof(market, response)
        IN  r.res.ok =>
                /\ r.self.requests[response.request_id].status = "Completed"
                /\ Cardinality(ResponsesOf(r.self, response.request_id)) = 1

(***************************************************************************)
(* C5: every request has at most one stored response, and the first       *)
(* submission wins: for a request that has a stored response every         *)
(* submit_proof fails with RequestNotInProgress and leaves the responses   *)
(* as they are.                                                            *)
(***************************************************************************)
C5_FirstSubmissionWins ==
    /\ \A R \in RequestIds : Cardinality(ResponsesOf(market, R)) <= 1
    /\ \A response \in AnyResponse :
          ResponsesOf(market, response.request_id) # {} =>
              LET r == submit_proof(market, response)
              IN  /\ r.res = Err(RequestNotInProgress)
                  /\ r.self.responses = market.responses

(***************************************************************************)
(* C6: after every successful submit_proof and verify_proof the prover of  *)
(* the response, when registered, has reputation_score = successful_proofs *)
(* / total_proofs * 100, which is 0 when total_proofs = 0.                 *)
(***************************************************************************)
C6_ReputationFormula ==
    /\ \A response \in AnyResponse :
          LET r == submit_proof(market, response)
              p == response.prover_id
          IN  r.res.ok /\ p \in DOMAIN r.self.provers =>
                  r.self.provers[p].reputation_score = ReputationOf(r.self.provers[p])
    /\ \A proof_id \in ProofIds, result \in VerificationInputs :
          LET r == verify_proof(market, proof_id, result)
          IN  r.res.ok =>
                  LET p == market.responses[proof_id].prover_id
                  IN  p \in DOMAIN r.self.provers =>
                          r.self.provers[p].reputation_score
                              = ReputationOf(r.self.provers[p])

(***************************************************************************)
(* C7: verify_proof with valid = false never drives successful_proofs      *)
(* below zero: the prover of the response, when registered, ends with      *)
(* successful_proofs - 1, and with 0 from 0; no counter is ever negative.  *)
(***************************************************************************)
C7_SaturatingDecrement ==
    /\ \A p \in DOMAIN market.provers : market.provers[p].successful_proofs >= 0
    /\ \A proof_id \in DOMAIN market.responses :
          LET r == verify_proof(market, proof_id, [valid |-> FALSE])
              p == market.responses[proof_id].prover_id
          IN  p \in DOMAIN market.provers =>
                  /\ r.res.ok
                  /\ r.self.provers[p].successful_proofs >= 0
                  /\ r.self.provers[p].successful_proofs
                        = IF market.provers[p].successful_proofs = 0 THEN 0
                          ELSE market.provers[p].successful_proofs - 1

\* a proof verified invalid whose prover is registered, has proofs counted and
\* is down to successful_proofs = 0: the next invalid verification starts from 0
C7_Witness ==
    \E proof_id \in DOMAIN market.verifications :
        LET p == market.responses[proof_id].prover_id
        IN  /\ ~market.verifications[proof_id].valid
            /\ p \in DOMAIN market.provers
            /\ market.provers[p].total_proofs > 0
            /\ market.provers[p].successful_proofs = 0

(***************************************************************************)
(* C8: a call that returns an error leaves the whole ledger as it was      *)
(* before the call, for each of the seven mutating operations.             *)
(***************************************************************************)
C8_ErrorsLeaveLedger ==
    /\ \A profile \in AnyProfile :
          LET r == register_prover(market, profile)
          IN  ~r.res.ok => r.self = market
    /\ \A request \in AnyRequest, t \in Times :
          LET r == submit_request(market, request, t)
          IN  ~r.res.ok => r.self = market
    /\ \A bid \in AnyBid :
          LET r == submit_bid(market, bid)
          IN  ~r.res.ok => r.self = market
    /\ \A R \in RequestIds, B \in BidIds :
          LET r == accept_bid(market, R, B)
          IN  ~r.res.ok => r.self = market
    /\ \A response \in AnyResponse :
          LET r == submit_proof(market, response)
          IN  ~r.res.ok => r.self = market
    /\ \A proof_id \in ProofIds, result \in VerificationInputs :
          LET r == verify_proof(market, proof_id, result)
          IN  ~r.res.ok => r.self = market
    /\ \A R \in RequestIds, requester_id \in RequesterIds :
          LET r == cancel_request(market, R, requester_id)
          IN  ~r.res.ok => r.self = market

\* a ledger where calls fail past their first checks: a Pending request with
\* bids and an unknown bid id, an InProgress request and an empty proof, a
\* request and a caller who does not own it
C8_Witness ==
    /\ \E R \in RequestIds, B \in BidIds :
          accept_bid(market, R, B).res = Err(BidNotFound)
    /\ \E response \in AnyResponse :
          submit_proof(market, response).res = Err(EmptyProof)
    /\ \E R \in RequestIds :
          cancel_request(market, R, "bob").res = Err(Unauthorized)

(***************************************************************************)
(* C9: in every state a caller can observe, a request with an Accepted bid *)
(* is not Pending and every other bid of that request is Rejected.         *)
(***************************************************************************)
C9_AcceptanceIsAtomic ==
    \A R \in DOMAIN market.bids :
        \A i \in BidsWith(market, R, "Accepted") :
            /\ market.requests[R].status # "Pending"
            /\ \A j \in DOMAIN market.bids[R] \ {i} :
                  market.bids[R][j].status = "Rejected"

(***************************************************************************)
(* C10: submit_request rejects with InvalidDeadline when the deadline is   *)
(* not after now (equal included), else with EmptyInput when the input is  *)
(* empty, else with NoEligibleProver when no registered prover supports    *)
(* the backend; a rejected request is not stored and not counted.          *)
(***************************************************************************)
Eligible(self, backend) ==
    \E p \in DOMAIN self.provers :
        \E i \in DOMAIN self.provers[p].supported_backends :
            self.provers[p].supported_backends[i] = backend

C10_SubmitRequestRejections ==
    \A request \in AnyRequest, t \in Times :
        LET r == submit_request(market, request, t)
        IN  /\ request.deadline <= t => r.res = Err(InvalidDeadline)
            /\ (request.deadline > t /\ request.input_data = <<>>)
                  => r.res = Err(EmptyInput)
            /\ (request.deadline > t /\ request.input_data # <<>>
                    /\ ~Eligible(market, request.backend))
                  => r.res = Err(NoEligibleProver(request.backend))
            /\ ~r.res.ok =>
                  (/\ r.self.requests = market.requests
                   /\ r.self.stats.total_requests = market.stats.total_requests)

\* a ledger with a prover and a stored request where submit_request rejects a
\* request that has all three faults for its deadline, one with an empty input
\* and an unsupported backend for its input, and one for its backend alone
C10_Witness ==
    /\ DOMAIN market.provers # {}
    /\ DOMAIN market.requests # {}
    /\ \E request \in AnyRequest, t \in Times :
          /\ request.deadline = t
          /\ request.input_data = <<>>
          /\ ~Eligible(market, request.backend)
          /\ submit_request(market, request, t).res = Err(InvalidDeadline)
    /\ \E request \in AnyRequest, t \in Times :
          /\ request.input_data = <<>>
          /\ ~Eligible(market, request.backend)
          /\ submit_request(market, request, t).res = Err(EmptyInput)
    /\ \E request \in AnyRequest, t \in Times :
          /\ Eligible(market, "koalabear")
          /\ request.id \in DOMAIN market.requests
          /\ submit_request(market, request, t).res
                = Err(NoEligibleProver(request.backend))

(***************************************************************************)
(* C11: a successful submit_request stores the request with status         *)
(* Pending, whatever status the submitted record carried, adds exactly one *)
(* to total_requests and returns the id of the stored request.             *)
(***************************************************************************)
C11_StoredAsPending ==
    \A request \in AnyRequest, t \in Times :
        LET r == submit_request(market, request, t)
        IN  r.res.ok =>
                /\ r.res.val = request.id
                /\ request.id \in DOMAIN r.self.requests
                /\ r.self.requests[request.id].status = "Pending"
                /\ r.self.stats.total_requests = market.stats.total_requests + 1

(***************************************************************************)
(* C12: submit_bid rejects with NotFound when the request is unknown, else *)
(* with RequestClosed when the request is not Pending, else with           *)
(* EstimateTooLong when the estimated duration exceeds one hour, one hour  *)
(* itself being accepted; so a request that is not Pending gets no bid.    *)
(***************************************************************************)
\* one hour, in the milliseconds estimated_time is kept in
OneHour == MaxEstimateSecs * 1000

C12_SubmitBidRejections ==
    \A bid \in AnyBid :
        LET r == submit_bid(market, bid)
            known == bid.request_id \in DOMAIN market.requests
            pending == known /\ market.requests[bid.request_id].status = "Pending"
        IN  /\ ~known => r.res = Err(RequestNotFound)
            /\ (known /\ ~pending) => r.res = Err(RequestClosed)
            /\ (pending /\ bid.estimated_time > OneHour)
                  => r.res = Err(EstimateTooLong)
            /\ (pending /\ bid.estimated_time <= OneHour) => r.res.ok
            /\ ~pending => r.self.bids = market.bids

(***************************************************************************)
(* C13: a successful submit_bid appends the bid with status Active to the  *)
(* bid list of its request and leaves the earlier bids and the status of   *)
(* the request as they were; every bid of a Pending request is Active.     *)
(***************************************************************************)
BidsOf(self, R) == IF R \in DOMAIN self.bids THEN self.bids[R] ELSE <<>>

C13_AppendedActive ==
    /\ \A R \in DOMAIN market.bids :
          market.requests[R].status = "Pending" =>
              \A i \in DOMAIN market.bids[R] : market.bids[R][i].status = "Active"
    /\ \A bid \in AnyBid :
          LET r == submit_bid(market, bid)
              R == bid.request_id
              before == BidsOf(market, R)
              after == BidsOf(r.self, R)
          IN  r.res.ok =>
                  /\ Len(after) = Len(before) + 1
                  /\ SubSeq(after, 1, Len(before)) = before
                  /\ after[Len(after)] = [bid EXCEPT !.status = "Active"]
                  /\ r.self.requests = market.requests

(***************************************************************************)
(* C14.  accept_bid is rejected with "Request not found" for a request     *)
(* the ledger does not hold, else with "Request is no longer accepting     *)
(* bids" for a request that is not Pending, else with a not-found error    *)
(* when the bid id is not among the bids of that request (the request has  *)
(* no bids, or the id is that of a bid of another request).  A rejected    *)
(* call changes no bid status and no request status.                       *)
(***************************************************************************)
\* the ids of the bids of request R
BidIdsOf(self, R) == {BidsOf(self, R)[i].id : i \in DOMAIN BidsOf(self, R)}

C14_AcceptBidRejections ==
    \A R \in RequestIds, B \in BidIds :
        LET r == accept_bid(market, R, B)
            known == R \in DOMAIN market.requests
            pending == known /\ market.requests[R].status = "Pending"
        IN  /\ ~known => r.res = Err(RequestNotFound)
            /\ (known /\ ~pending) => r.res = Err(RequestClosed)
            /\ (pending /\ R \notin DOMAIN market.bids) => r.res = Err(NoBidsFound)
            /\ (pending /\ R \in DOMAIN market.bids /\ B \notin BidIdsOf(market, R))
                    => r.res = Err(BidNotFound)
            /\ (pending /\ B \in BidIdsOf(market, R)) => r.res.ok
            /\ ~r.res.ok => (/\ r.self.bids = market.bids
                             /\ r.self.requests = market.requests)

\* a Pending request with bids is asked to accept the bid of another
\* request, a request that is not Pending is asked to accept one of its
\* own bids: both are rejected
C14_Witness ==
    /\ \E R \in DOMAIN market.bids, Q \in DOMAIN market.bids, B \in BidIds :
          /\ Q # R
          /\ market.requests[R].status = "Pending"
          /\ B \in BidIdsOf(market, Q) /\ B \notin BidIdsOf(market, R)
          /\ accept_bid(market, R, B).res = Err(BidNotFound)
    /\ \E R \in DOMAIN market.bids, B \in BidIds :
          /\ market.requests[R].status # "Pending"
          /\ B \in BidIdsOf(market, R)
          /\ accept_bid(market, R, B).res = Err(RequestClosed)

(***************************************************************************)
(* C15.  submit_proof is rejected with "Request not found" for a request   *)
(* the ledger does not hold, else with "Request is not in progress" for a  *)
(* request that is not InProgress, else with "Proof data cannot be empty"  *)
(* for empty proof data.  A rejected proof records no response and changes *)
(* no counter, no prover profile and no request status: the ledger is as   *)
(* it was.                                                                 *)
(***************************************************************************)
C15_SubmitProofRejections ==
    \A response \in AnyResponse :
        LET r == submit_proof(market, response)
            R == response.request_id
            known == R \in DOMAIN market.requests
            running == known /\ market.requests[R].status = "InProgress"
        IN  /\ ~known => r.res = Err(RequestNotFound)
            /\ (known /\ ~running) => r.res = Err(RequestNotInProgress)
            /\ (running /\ response.proof_data = <<>>) => r.res = Err(EmptyProof)
            /\ (running /\ response.proof_data # <<>>) => r.res.ok
            /\ ~r.res.ok => r.self = market

\* an empty proof is sent for a request in progress and for a request that
\* is not: the first is rejected as empty, the second for the status
C15_Witness ==
    \E a \in AnyResponse, b \in AnyResponse :
        /\ a.proof_data = <<>> /\ b.proof_data = <<>>
        /\ a.request_id \in DOMAIN market.requests
        /\ b.request_id \in DOMAIN market.requests
        /\ market.requests[a.request_id].status = "InProgress"
        /\ market.requests[b.request_id].status # "InProgress"
        /\ submit_proof(market, a).res = Err(EmptyProof)
        /\ submit_proof(market, b).res = Err(RequestNotInProgress)

(***************************************************************************)
(* C16.  A successful submit_proof adds one to the global proof counter    *)
(* and the price of the response to the cumulative volume, and adds one to *)
(* total_proofs and to successful_proofs of the profile of the submitting  *)
(* prover, in the step that sets the request Completed.  (A prover id with *)
(* no profile has no counters: the profiles are then left as they were.)   *)
(***************************************************************************)
C16_ProofCounters ==
    \A response \in AnyResponse :
        LET r == submit_proof(market, response)
            P == response.prover_id
        IN  r.res.ok =>
                /\ r.self.stats.total_proofs_generated
                        = market.stats.total_proofs_generated + 1
                /\ r.self.stats.total_volume = market.stats.total_volume + response.price
                /\ r.self.requests[response.request_id].status = "Completed"
                /\ DOMAIN r.self.provers = DOMAIN market.provers
                /\ \A q \in DOMAIN market.provers :
                      IF q = P
                      THEN /\ r.self.provers[q].total_proofs
                                  = market.provers[q].total_proofs + 1
                           /\ r.self.provers[q].successful_proofs
                                  = market.provers[q].successful_proofs + 1
                      ELSE r.self.provers[q] = market.provers[q]

\* a registered prover that has a proof to its name can submit one more
C16_Witness ==
    \E response \in AnyResponse :
        /\ response.prover_id \in DOMAIN market.provers
        /\ market.provers[response.prover_id].total_proofs >= 1
        /\ market.stats.total_volume > 0
        /\ submit_proof(market, response).res.ok

(***************************************************************************)
(* C17.  verify_proof is rejected with "Proof not found" for a proof id    *)
(* the ledger does not hold.  Otherwise the verified flag of the response  *)
(* becomes result.valid; when valid is false the successful_proofs of the  *)
(* profile of the prover of that proof goes down by one, not below zero,   *)
(* and its total_proofs stays; when valid is true both stay.               *)
(***************************************************************************)
C17_VerifyProof ==
    \A x \in ProofIds, result \in VerificationInputs :
        LET r == verify_proof(market, x, result)
        IN  IF x \notin DOMAIN market.responses
            THEN r.res = Err(ProofNotFound) /\ r.self = market
            ELSE LET P == market.responses[x].prover_id
                 IN  /\ r.res.ok
                     /\ r.self.responses[x].verified = result.valid
                     /\ P \in DOMAIN market.provers =>
                           LET s == market.provers[P].successful_proofs
                           IN  /\ r.self.provers[P].total_proofs
                                      = market.provers[P].total_proofs
                               /\ r.self.provers[P].successful_proofs
                                      = IF result.valid THEN s
                                        ELSE IF s >= 1 THEN s - 1 ELSE 0

\* one proof id is unknown, another is that of a proof of a registered
\* prover with a successful proof to lose, and is found invalid
C17_Witness ==
    \E x \in DOMAIN market.responses, y \in ProofIds :
        LET P == market.responses[x].prover_id
        IN  /\ y \notin DOMAIN market.responses
            /\ P \in DOMAIN market.provers
            /\ market.provers[P].successful_proofs >= 1
            /\ verify_proof(market, x, [valid |-> FALSE]).self.provers[P].successful_proofs
                   = market.provers[P].successful_proofs - 1
            /\ verify_proof(market, y, [valid |-> FALSE]).res = Err(ProofNotFound)

(***************************************************************************)
(* C18.  verify_proof is applied every time it is called: k calls in a row *)
(* with valid = false for one proof id take k from the successful_proofs   *)
(* of the prover, stopping at zero, and the reputation is computed anew    *)
(* from the counters after each call.  A second call is thus not without   *)
(* effect.                                                                 *)
(***************************************************************************)
\* how many calls in a row are looked at
Repeats == {1, 2, 3}

RECURSIVE verify_times(_, _, _, _)
\* the ledger after k calls of verify_proof(proof_id, result)
verify_times(self, proof_id, result, k) ==
    IF k = 0 THEN self
    ELSE verify_times(verify_proof(self, proof_id, result).self, proof_id, result, k - 1)

C18_VerifyReapplies ==
    \A x \in DOMAIN market.responses, k \in Repeats :
        LET P == market.responses[x].prover_id
            after == verify_times(market, x, [valid |-> FALSE], k)
        IN  P \in DOMAIN market.provers =>
                LET s == market.provers[P].successful_proofs
                    left == IF s >= k THEN s - k ELSE 0
                IN  /\ after.provers[P].successful_proofs = left
                    /\ after.provers[P].total_proofs = market.provers[P].total_proofs
                    /\ after.provers[P].reputation_score
                           = Percent(left, market.provers[P].total_proofs)

\* a proof already found invalid is found invalid once more, and its
\* prover loses one more successful proof and part of its reputation: it
\* had 1244 successes in 1251 proofs and the reputation 99.4404476418865, the
\* f64 of 1244 / 1251 times 100.0 (bits 4058dc304b4e602e)
C18_Witness ==
    \E x \in DOMAIN market.verifications :
        LET P == market.responses[x].prover_id
            again == verify_proof(market, x, [valid |-> FALSE]).self
        IN  /\ ~market.verifications[x].valid
            /\ P \in DOMAIN market.provers
            /\ market.provers[P].successful_proofs >= 1
            /\ market.provers[P].total_proofs = 1251
            /\ market.provers[P].reputation_score
                   = Finite(6, <<101827, 4819, 155694>>)
            /\ again.provers[P].successful_proofs
                   = market.provers[P].successful_proofs - 1
            /\ again.provers[P].reputation_score # market.provers[P].reputation_score

(***************************************************************************)
(* C19.  One verification outcome per proof: the outcome recorded for a    *)
(* proof id stays the outcome recorded for it in every later step, no      *)
(* second outcome takes its place.                                         *)
(***************************************************************************)
C19_VerifiedOnce ==
    [][\A x \in DOMAIN market.verifications :
          /\ x \in DOMAIN market'.verifications
          /\ market'.verifications[x] = market.verifications[x]]_vars

(***************************************************************************)
(* C20.  register_prover never overwrites.  For an id that has a profile   *)
(* it is rejected with "Prover already registered", also when the profile  *)
(* passed has no backend, and the profile held stays as it is; for a new   *)
(* id with no backend it is rejected with "Prover must support at least    *)
(* one backend" and no profile is added.                                   *)
(***************************************************************************)
C20_RegisterNeverOverwrites ==
    \A profile \in AnyProfile :
        LET r == register_prover(market, profile)
        IN  /\ profile.id \in DOMAIN market.provers =>
                  (r.res = Err(AlreadyRegistered) /\ r.self = market)
            /\ (profile.id \notin DOMAIN market.provers
                    /\ profile.supported_backends = <<>>) =>
                  (r.res = Err(NoBackends) /\ r.self = market)
            /\ (profile.id \notin DOMAIN market.provers
                    /\ profile.supported_backends # <<>>) =>
                  (/\ r.res.ok
                   /\ r.self.provers[profile.id] = profile
                   /\ \A q \in DOMAIN market.provers :
                         r.self.provers[q] = market.provers[q])

\* a profile with no backend is passed under an id that has a profile that
\* differs from it, and under an id that has none
C20_Witness ==
    \E a \in AnyProfile, b \in AnyProfile :
        /\ a.supported_backends = <<>> /\ b.supported_backends = <<>>
        /\ a.id \in DOMAIN market.provers
        /\ market.provers[a.id] # a
        /\ market.provers[a.id].total_proofs >= 1
        /\ b.id \notin DOMAIN market.provers
        /\ register_prover(market, a).res = Err(AlreadyRegistered)
        /\ register_prover(market, b).res = Err(NoBackends)

(***************************************************************************)
(* C21.  stats.active_provers is the number of the profiles held, in every *)
(* reachable state: 0 at the start, one more after each register_prover    *)
(* that succeeds, and never less than it was.                              *)
(***************************************************************************)
C21_ActiveProvers ==
    /\ market.stats.active_provers = 0
    /\ [](market.stats.active_provers = Cardinality(DOMAIN market.provers))
    /\ [](\A profile \in AnyProfile :
             LET r == register_prover(market, profile)
             IN  r.res.ok => r.self.stats.active_provers
                                 = market.stats.active_provers + 1)
    /\ [][market'.stats.active_provers >= market.stats.active_provers]_vars

\* two provers are registered, and proofs were recorded since
C21_Witness ==
    /\ market.stats.active_provers = 2
    /\ DOMAIN market.provers = ProverIds
    /\ market.stats.total_proofs_generated >= 1

(***************************************************************************)
(* C22.  cancel_request is rejected with "Request not found" for a request *)
(* the ledger does not hold, else with "Unauthorized" when the caller is   *)
(* not the requester of the request, whatever its status, else with        *)
(* "Cannot cancel request in current status" when the status is neither    *)
(* Pending nor InProgress.  Otherwise the status becomes Cancelled, and    *)
(* the same call made again is rejected for the status and leaves the      *)
(* request Cancelled.                                                      *)
(***************************************************************************)
C22_CancelRequest ==
    \A R \in RequestIds, caller \in RequesterIds :
        LET r == cancel_request(market, R, caller)
            known == R \in DOMAIN market.requests
            owner == known /\ market.requests[R].requester_id = caller
            open == known /\ market.requests[R].status \in {"Pending", "InProgress"}
        IN  /\ ~known => r.res = Err(RequestNotFound)
            /\ (known /\ ~owner) => r.res = Err(Unauthorized)
            /\ (owner /\ ~open) => r.res = Err(InvalidState)
            /\ ~r.res.ok => r.self = market
            /\ (owner /\ open) =>
                  LET again == cancel_request(r.self, R, caller)
                  IN  /\ r.res.ok
                      /\ r.self = [market EXCEPT !.requests[R].status = "Cancelled"]
                      /\ again.res = Err(InvalidState)
                      /\ again.self = r.self

\* a request that is Completed and a request that is open: a caller who is
\* not the requester is turned away from the first as unauthorized, and the
\* requester cancels the second
C22_Witness ==
    \E R \in DOMAIN market.requests, Q \in DOMAIN market.requests :
        \E caller \in RequesterIds :
            /\ market.requests[R].status = "Completed"
            /\ market.requests[R].requester_id # caller
            /\ cancel_request(market, R, caller).res = Err(Unauthorized)
            /\ market.requests[Q].status = "InProgress"
            /\ cancel_request(market, Q, market.requests[Q].requester_id).res.ok

(***************************************************************************)
(* C23.  A cancelled request is closed for good: from a state where the    *)
(* request is Cancelled, every step leads to a state where it is still     *)
(* Cancelled and where every submit_bid, accept_bid and submit_proof on it *)
(* is rejected.                                                            *)
(***************************************************************************)
\* request R is held with status Cancelled
Cancelled(self, R) ==
    R \in DOMAIN self.requests /\ self.requests[R].status = "Cancelled"

\* every bid, acceptance and proof on request R is rejected
Closed(self, R) ==
    /\ \A bid \in AnyBid : bid.request_id = R => ~submit_bid(self, bid).res.ok
    /\ \A B \in BidIds : ~accept_bid(self, R, B).res.ok
    /\ \A response \in AnyResponse :
          response.request_id = R => ~submit_proof(self, response).res.ok

C23_CancelledForGood ==
    [][\A R \in RequestIds :
          Cancelled(market, R) => (Cancelled(market', R) /\ Closed(market', R))]_vars

(***************************************************************************)
(* C24.  The counters of the stats can be derived from the maps, in every  *)
(* reachable state: total_requests is the number of the requests held,     *)
(* total_proofs_generated the number of the responses held, total_volume   *)
(* the sum of the prices of the responses held.                            *)
(***************************************************************************)
C24_StatsRederivable ==
    /\ market.stats.total_requests = Cardinality(DOMAIN market.requests)
    /\ market.stats.total_proofs_generated = Cardinality(DOMAIN market.responses)
    /\ market.stats.total_volume
           = Sum([x \in DOMAIN market.responses |-> market.responses[x].price],
                 DOMAIN market.responses)

(***************************************************************************)
(* C25.  After every submit_proof and every verify_proof that succeeds the *)
(* derived statistics are those of the responses held: the mean price is   *)
(* the sum of their prices divided by their number, rounded down, the mean *)
(* generation time the sum of their generation times divided by their      *)
(* number, rounded down, the success rate the number of those with         *)
(* verified = true over their number, times 100.  While no response is     *)
(* held the three values are those the ledger started with.                *)
(***************************************************************************)
\* responses that differ in price, generation time and verified flag
PricedResponses ==
    [id : ProofIds,
     request_id : RequestIds,
     prover_id : {"p1"},
     proof_data : {<<1>>},
     generation_time : {3, 4},
     price : {100, 101},
     verified : BOOLEAN]

\* q is total divided by n, rounded down
IsMean(q, total, n) == n * q <= total /\ total < n * (q + 1)

\* the statistics of ledger self are those of the responses it holds
StatsDerived(self) ==
    LET rs == self.responses
        n == Cardinality(DOMAIN rs)
    IN  /\ n >= 1
        /\ IsMean(self.stats.average_price,
                  Sum([x \in DOMAIN rs |-> rs[x].price], DOMAIN rs), n)
        /\ IsMean(self.stats.average_proof_time,
                  Sum([x \in DOMAIN rs |-> rs[x].generation_time], DOMAIN rs), n)
        /\ self.stats.success_rate
               = Times100(F64(Cardinality({x \in DOMAIN rs : rs[x].verified}), n))

C25_StatsRecomputed ==
    /\ \A response \in PricedResponses :
          LET r == submit_proof(market, response)
          IN  r.res.ok => StatsDerived(r.self)
    /\ \A x \in ProofIds, result \in VerificationInputs :
          LET r == verify_proof(market, x, result)
          IN  r.res.ok => StatsDerived(r.self)
    /\ market.responses = EmptyMap =>
          /\ market.stats.average_price = new.stats.average_price
          /\ market.stats.average_proof_time = new.stats.average_proof_time
          /\ market.stats.success_rate = new.stats.success_rate

\* a second proof is recorded at a price one above that of the first: the
\* mean price is rounded down, and one of the two proofs counts as verified
C25_Witness ==
    \E response \in PricedResponses :
        LET r == submit_proof(market, response)
            n == Cardinality(DOMAIN r.self.responses)
        IN  /\ r.res.ok
            /\ n = 2
            /\ r.self.stats.average_price * n < r.self.stats.total_volume
            /\ r.self.stats.success_rate = F64(50, 1)
            /\ verify_proof(r.self, response.id, [valid |-> FALSE]).self.stats.success_rate
                   = F64(0, 1)

(***************************************************************************)
(* The auction of one request: a prover is registered, a request is        *)
(* submitted, and bids that differ in price and estimated time are         *)
(* submitted on it in every order.                                         *)
(***************************************************************************)
\* the most bids one request collects
MaxBids == 3

PricedBids ==
    [id : BidIds,
     request_id : RequestIds,
     prover_id : {"p1"},
     price : {1, 2},
     estimated_time : {1000, 2000},
     status : {"Active"}]

AuctionInit ==
    \E profile \in ProfileInputs, request \in RequestInputs, t \in Times :
        /\ request.status = "Pending"
        /\ market = submit_request(register_prover(new, profile).self, request, t).self

SubmitPricedBid ==
    \E bid \in PricedBids :
        /\ Len(BidsOf(market, bid.request_id)) < MaxBids
        /\ market' = submit_bid(market, bid).self

AuctionNext == SubmitPricedBid

AuctionSpec == AuctionInit /\ [][AuctionNext]_vars

(***************************************************************************)
(* C26.  get_best_bids(request_id, count) returns the bids of the request  *)
(* by ascending price, and by ascending estimated time among bids of one   *)
(* price, cut to the first count: min(count, number of the bids) entries,  *)
(* none of them ranked after a bid left out, and no entry for a request    *)
(* with no bids or a request the ledger does not hold.  (The query takes   *)
(* the ledger by shared reference and returns the entries alone.)          *)
(***************************************************************************)
\* the counts asked for: none, fewer than, as many as and more than the bids
Counts == 0 .. MaxBids + 1

\* bid a is not ranked after bid b
NotAfter(a, b) ==
    \/ a.price < b.price
    \/ a.price = b.price /\ a.estimated_time <= b.estimated_time

\* how often value b occurs in sequence v
Occurs(v, b) == Cardinality({i \in DOMAIN v : v[i] = b})

C26_BestBids ==
    \A R \in RequestIds, count \in Counts :
        LET out == get_best_bids(market, R, count)
            bids == BidsOf(market, R)
        IN  /\ Len(out) = (IF count < Len(bids) THEN count ELSE Len(bids))
            /\ \A i, j \in DOMAIN out : i < j => NotAfter(out[i], out[j])
            /\ \A b \in Range(out) : Occurs(out, b) <= Occurs(bids, b)
            /\ \A b \in Range(bids) :
                  Occurs(out, b) < Occurs(bids, b) =>
                      \A i \in DOMAIN out : NotAfter(out[i], b)
            /\ bids = <<>> => out = <<>>

\* three bids were submitted dearest first, two of one price with the
\* longer estimate first: the two best are asked for, and come in another
\* order than they were submitted in; a request not held has no best bid
C26_Witness ==
    \E R \in DOMAIN market.bids, Q \in RequestIds :
        LET bids == market.bids[R]
            out == get_best_bids(market, R, 2)
        IN  /\ Len(bids) = 3
            /\ bids[1].price > bids[2].price
            /\ bids[2].price = bids[3].price
            /\ bids[2].estimated_time > bids[3].estimated_time
            /\ out = <<bids[3], bids[2]>>
            /\ Q \notin DOMAIN market.requests
            /\ get_best_bids(market, Q, 2) = <<>>

(***************************************************************************)
(* C27.  get_prover_rankings returns every registered prover once, by      *)
(* descending reputation score, and by descending successful_proofs among  *)
(* provers of one score, in every reachable state and whatever the order   *)
(* in which the map hands out the provers.                                 *)
(***************************************************************************)
\* prover a is not ranked after prover b
RankedNotAfter(a, b) ==
    \/ Lt(b.reputation_score, a.reputation_score)
    \/ /\ a.reputation_score = b.reputation_score
       /\ ~IsNaN(a.reputation_score)
       /\ a.successful_proofs >= b.successful_proofs

C27_Rankings ==
    \A iter \in IterOrders(DOMAIN market.provers) :
        LET r == get_prover_rankings(market, iter)
        IN  /\ ~r.panic
            /\ Len(r.val) = Cardinality(DOMAIN market.provers)
            /\ \A P \in DOMAIN market.provers :
                  \E i \in DOMAIN r.val : r.val[i] = <<P, market.provers[P]>>
            /\ \A i, j \in DOMAIN r.val :
                  i < j => RankedNotAfter(r.val[i][2], r.val[j][2])

(***************************************************************************)
(* C28.  search_provers returns the registered profiles that satisfy every *)
(* filter passed, and no other: the backend is among those supported, the  *)
(* base price is <= max_price, the reputation score is >= min_reputation.  *)
(* A filter that is absent excludes nothing.                               *)
(***************************************************************************)
\* the filters passed: absent, or one value
AnyBackend == {<<>>} \cup {<<b>> : b \in Backends}
AnyMaxPrice == {<<>>, <<99>>, <<100>>}
AnyMinReputation == {<<>>, <<F64(50, 1)>>, <<F64(100, 1)>>}

\* f64 >= f64: false when either side is NaN
Ge(a, b) == ~IsNaN(a) /\ ~IsNaN(b) /\ ~Lt(a, b)

\* profile p satisfies the filters passed
Satisfies(p, backend, max_price, min_reputation) ==
    /\ backend # <<>> => backend[1] \in Range(p.supported_backends)
    /\ max_price # <<>> => p.base_price <= max_price[1]
    /\ min_reputation # <<>> => Ge(p.reputation_score, min_reputation[1])

C28_SearchProvers ==
    \A iter \in IterOrders(DOMAIN market.provers) :
        \A backend \in AnyBackend, max_price \in AnyMaxPrice,
           min_reputation \in AnyMinReputation :
            LET out == search_provers(market, iter, backend, max_price, min_reputation)
            IN  /\ Range(out)
                       = {p \in Values(market.provers) :
                              Satisfies(p, backend, max_price, min_reputation)}
                /\ \A i, j \in DOMAIN out : out[i] = out[j] => i = j

(***************************************************************************)
(* C30.  No call is fatal to the process: in every reachable state the     *)
(* ranking of the provers completes and returns a value, whatever the      *)
(* order in which the map hands out the provers.  (Of the calls of the     *)
(* library this is the one with a path that unwinds between integers in    *)
(* range: the unwrap of the comparison of two reputation scores.)          *)
(***************************************************************************)
C30_NeverFatal ==
    \A iter \in IterOrders(DOMAIN market.provers) :
        ~get_prover_rankings(market, iter).panic

(***************************************************************************)
(* C31.  Requests are never deleted and never replaced: in every step a    *)
(* request that is held stays held with its fields as they were, but for   *)
(* the status, which moves along the edges of accept_bid, submit_proof and *)
(* cancel_request alone; and a submit_request under an id that is held     *)
(* leaves the request held as it is.                                       *)
(***************************************************************************)
\* request record q without its status
Unstatused(q) == [q EXCEPT !.status = "Pending"]

C31_RequestsKept ==
    [][/\ \A R \in DOMAIN market.requests :
             /\ R \in DOMAIN market'.requests
             /\ Unstatused(market'.requests[R]) = Unstatused(market.requests[R])
             /\ \/ market'.requests[R].status = market.requests[R].status
                \/ <<market.requests[R].status, market'.requests[R].status>>
                       \in StatusEdges
       /\ \A request \in AnyRequest, t \in Times :
             request.id \in DOMAIN market.requests =>
                 submit_request(market, request, t).self.requests[request.id]
                     = market.requests[request.id]]_vars

(***************************************************************************)
(* C32.  Expired is reserved for the transition that expires a request:    *)
(* the library has a call that moves an open request to Expired, no other  *)
(* call leaves a request Expired that was not, and a request that is       *)
(* Expired keeps that status in every call.                                *)
(***************************************************************************)
\* the ledgers the calls of the library other than submit_request lead to
AfterCall(self) ==
    {register_prover(self, profile).self : profile \in AnyProfile}
        \cup {submit_bid(self, bid).self : bid \in AnyBid}
        \cup {accept_bid(self, R, B).self : R \in RequestIds, B \in BidIds}
        \cup {submit_proof(self, response).self : response \in AnyResponse}
        \cup {verify_proof(self, x, result).self :
                  x \in ProofIds, result \in VerificationInputs}
        \cup {cancel_request(self, R, caller).self :
                  R \in RequestIds, caller \in RequesterIds}

\* the ledgers submit_request leads to
AfterSubmit(self) ==
    {submit_request(self, request, t).self : request \in AnyRequest, t \in Times}

\* request R is held with status Expired
Expired(self, R) ==
    R \in DOMAIN self.requests /\ self.requests[R].status = "Expired"

C32_ExpiredReserved ==
    \A R \in RequestIds :
        /\ (R \in DOMAIN market.requests
                /\ market.requests[R].status \in {"Pending", "InProgress"}) =>
              \E after \in AfterCall(market) : Expired(after, R)
        /\ ~Expired(market, R) =>
              \A after \in AfterSubmit(market) : ~Expired(after, R)
        /\ Expired(market, R) =>
              \A after \in AfterCall(market) \cup AfterSubmit(market) :
                  Expired(after, R)

(***************************************************************************)
(* C33.  No timeout: the deadline is read when the request is submitted    *)
(* and never after.  What submit_bid, accept_bid, submit_proof and         *)
(* cancel_request return for a request that is held, and the ledger they   *)
(* leave, are the same with the deadline of the request before, at or      *)
(* after the instant of the call; a proof sent after the deadline          *)
(* completes the request.                                                  *)
(***************************************************************************)
\* ledger self with the deadline of request R at d
Due(self, R, d) == [self EXCEPT !.requests[R].deadline = d]

C33_NoTimeout ==
    \A R \in DOMAIN market.requests :
      \A d \in Deadlines \ {market.requests[R].deadline} :
        LET late == Due(market, R, d)
        IN  /\ \A bid \in AnyBid :
                  bid.request_id = R =>
                      LET then == submit_bid(late, bid)
                          now == submit_bid(market, bid)
                      IN  then.res = now.res /\ then.self = Due(now.self, R, d)
            /\ \A B \in BidIds :
                  LET then == accept_bid(late, R, B)
                      now == accept_bid(market, R, B)
                  IN  then.res = now.res /\ then.self = Due(now.self, R, d)
            /\ \A response \in AnyResponse :
                  response.request_id = R =>
                      LET then == submit_proof(late, response)
                          now == submit_proof(market, response)
                      IN  then.res = now.res /\ then.self = Due(now.self, R, d)
            /\ \A caller \in RequesterIds :
                  LET then == cancel_request(late, R, caller)
                      now == cancel_request(market, R, caller)
                  IN  then.res = now.res /\ then.self = Due(now.self, R, d)

\* a request is in progress and its deadline has passed at every instant
\* of a call: a proof for it is taken and completes it
C33_Witness ==
    \E response \in AnyResponse :
        LET R == response.request_id
        IN  /\ R \in DOMAIN market.requests
            /\ market.requests[R].status = "InProgress"
            /\ LET late == Due(market, R, 0)
                   r == submit_proof(late, response)
               IN  /\ \A t \in Times : late.requests[R].deadline < t
                   /\ r.res.ok
                   /\ r.self.requests[R].status = "Completed"

(***************************************************************************)
(* C34.  The reputation of every prover is a success ratio within 0..100:  *)
(* in every reachable state successful_proofs <= total_proofs, and         *)
(* 0 <= reputation_score <= 100.                                           *)
(***************************************************************************)
C34_ReputationInRange ==
    \A P \in DOMAIN market.provers :
        LET prover == market.provers[P]
        IN  /\ prover.successful_proofs <= prover.total_proofs
            /\ Ge(prover.reputation_score, F64(0, 1))
            /\ Ge(F64(100, 1), prover.reputation_score)

(***************************************************************************)
(* C35.  Two callers ask accept_bid for two bids of one Pending request,   *)
(* each bid with its own id, and the calls run one after the other in      *)
(* either order: the first succeeds, the second is rejected with "Request  *)
(* is no longer accepting bids", and after both the bid of the first call  *)
(* is the only Accepted bid of the request, the bid of the second call is  *)
(* Rejected and the request is InProgress.                                 *)
(***************************************************************************)
C35_AcceptRace ==
    \A R \in DOMAIN market.bids, B1 \in BidIds, B2 \in BidIds :
        (/\ market.requests[R].status = "Pending"
         /\ B1 # B2
         /\ B1 \in BidIdsOf(market, R)
         /\ B2 \in BidIdsOf(market, R)) =>
            LET first == accept_bid(market, R, B1)
                second == accept_bid(first.self, R, B2)
                bids == second.self.bids[R]
            IN  /\ first.res.ok
                /\ second.res = Err(RequestClosed)
                /\ second.self.requests[R].status = "InProgress"
                /\ \A i \in DOMAIN bids :
                      /\ bids[i].status = "Accepted" => bids[i].id = B1
                      /\ bids[i].id = B2 => bids[i].status = "Rejected"
                /\ Cardinality(BidsWith(second.self, R, "Accepted")) = 1

(***************************************************************************)
(* C36.  The requester cancels a request in progress and a prover sends a  *)
(* proof with proof data for it, the two calls one after the other in      *)
(* either order: one of them succeeds.  Cancel first: the request is       *)
(* Cancelled, the proof is rejected, and but for that status the ledger is *)
(* as it was (no response, no counter, no profile changed).  Proof first:  *)
(* the request is Completed, the response is held, and the cancel is       *)
(* rejected with "Cannot cancel request in current status".                *)
(***************************************************************************)
C36_CancelOrProof ==
    \A response \in AnyResponse :
        LET R == response.request_id
        IN  (/\ R \in DOMAIN market.requests
             /\ market.requests[R].status = "InProgress"
             /\ response.proof_data # <<>>) =>
                LET owner == market.requests[R].requester_id
                    cancelled == cancel_request(market, R, owner)
                    late == submit_proof(cancelled.self, response)
                    proved == submit_proof(market, response)
                    refused == cancel_request(proved.self, R, owner)
                IN  /\ cancelled.res.ok
                    /\ ~late.res.ok
                    /\ late.self = [market EXCEPT !.requests[R].status = "Cancelled"]
                    /\ proved.res.ok
                    /\ refused.res = Err(InvalidState)
                    /\ refused.self = proved.self
                    /\ refused.self.requests[R].status = "Completed"
                    /\ refused.self.responses[response.id] = response

\* a request in progress with an accepted bid, and a proof for it by a
\* registered prover
C36_Witness ==
    \E response \in AnyResponse :
        LET R == response.request_id
        IN  /\ R \in DOMAIN market.requests
            /\ market.requests[R].status = "InProgress"
            /\ BidsWith(market, R, "Accepted") # {}
            /\ response.proof_data # <<>>
            /\ response.prover_id \in DOMAIN market.provers
            /\ submit_proof(cancel_request(market, R, "alice").self, response).res
                   = Err(RequestNotInProgress)
            /\ cancel_request(submit_proof(market, response).self, R, "alice").res
                   = Err(InvalidState)

(***************************************************************************)
(* C37.  Every response held belongs to a request that is Completed, in    *)
(* every reachable state: none to a request that is Pending, InProgress or *)
(* Cancelled, and a request with a response is not cancelled any more.     *)
(***************************************************************************)
C37_ResponsesOfCompleted ==
    \A x \in DOMAIN market.responses :
        LET R == market.responses[x].request_id
        IN  /\ R \in DOMAIN market.requests
            /\ market.requests[R].status = "Completed"
            /\ \A caller \in RequesterIds : ~cancel_request(market, R, caller).res.ok

(***************************************************************************)
(* C38.  submit_proof does not tie the response to the accepted bid: for a *)
(* request in progress a proof with proof data is taken whatever prover id *)
(* it names.  For a prover id with no profile the request becomes          *)
(* Completed, the proof counter goes up by one and the volume by the       *)
(* price, and no profile changes.                                          *)
(***************************************************************************)
C38_ProofOfAnyProver ==
    \A response \in AnyResponse :
        LET R == response.request_id
            r == submit_proof(market, response)
        IN  (/\ R \in DOMAIN market.requests
             /\ market.requests[R].status = "InProgress"
             /\ response.proof_data # <<>>) =>
                /\ r.res = Ok(response.id)
                /\ response.prover_id \notin DOMAIN market.provers =>
                      /\ r.self.requests[R].status = "Completed"
                      /\ r.self.stats.total_proofs_generated
                             = market.stats.total_proofs_generated + 1
                      /\ r.self.stats.total_volume
                             = market.stats.total_volume + response.price
                      /\ r.self.provers = market.provers

\* the accepted bid of a request in progress is that of a registered
\* prover, and the proof comes under the id of another, with no profile
C38_Witness ==
    \E response \in AnyResponse :
        LET R == response.request_id
        IN  /\ R \in DOMAIN market.requests
            /\ market.requests[R].status = "InProgress"
            /\ \E i \in BidsWith(market, R, "Accepted") :
                  /\ market.bids[R][i].prover_id # response.prover_id
                  /\ market.bids[R][i].prover_id \in DOMAIN market.provers
            /\ response.prover_id \notin DOMAIN market.provers
            /\ submit_proof(market, response).res.ok

(***************************************************************************)
(* C39.  verify_proof with valid = true leaves successful_proofs and       *)
(* total_proofs of every prover as they were.  It changes the verified     *)
(* flag of the response, the verification record of the proof and what is  *)
(* derived (the reputation score of the prover of the proof, the three     *)
(* derived values of the stats), and nothing else.  A proof found invalid  *)
(* and then valid leaves the prover without the successful proof the       *)
(* first outcome took.                                                     *)
(***************************************************************************)
\* ledger self without what verify_proof(x, ..) derives or records
Underived(self, x) ==
    [self EXCEPT
        !.responses = [k \in DOMAIN @ |->
                          IF k = x THEN [@[k] EXCEPT !.verified = FALSE] ELSE @[k]],
        !.verifications = [k \in DOMAIN @ \ {x} |-> @[k]],
        !.provers = [k \in DOMAIN @ |-> [@[k] EXCEPT !.reputation_score = NaN]],
        !.stats.average_proof_time = 0,
        !.stats.average_price = 0,
        !.stats.success_rate = NaN]

C39_ValidKeepsCounters ==
    \A x \in DOMAIN market.responses :
        LET valid == verify_proof(market, x, [valid |-> TRUE])
            invalid == verify_proof(market, x, [valid |-> FALSE])
            revalid == verify_proof(invalid.self, x, [valid |-> TRUE])
        IN  /\ valid.res.ok
            /\ \A P \in DOMAIN market.provers :
                  /\ valid.self.provers[P].successful_proofs
                         = market.provers[P].successful_proofs
                  /\ valid.self.provers[P].total_proofs = market.provers[P].total_proofs
                  /\ P # market.responses[x].prover_id =>
                         valid.self.provers[P] = market.provers[P]
                  /\ revalid.self.provers[P].successful_proofs
                         = invalid.self.provers[P].successful_proofs
            /\ Underived(valid.self, x) = Underived(market, x)
            /\ valid.self.responses[x].verified
            /\ valid.self.verifications[x] = [valid |-> TRUE]

\* a proof of a registered prover with a successful proof to lose is found
\* invalid and then valid: the prover has one successful proof less than
\* before the two calls
C39_Witness ==
    \E x \in DOMAIN market.responses :
        LET P == market.responses[x].prover_id
            invalid == verify_proof(market, x, [valid |-> FALSE])
            revalid == verify_proof(invalid.self, x, [valid |-> TRUE])
        IN  /\ P \in DOMAIN market.provers
            /\ market.provers[P].successful_proofs >= 1
            /\ revalid.self.provers[P].successful_proofs
                   = market.provers[P].successful_proofs - 1
            /\ revalid.self.responses[x].verified

(***************************************************************************)
(* C40.  A cancel_request that succeeds changes the status of that request *)
(* and nothing else: the bids of the request keep their statuses, the      *)
(* other requests, the responses, the profiles and the counters are as     *)
(* they were.                                                              *)
(***************************************************************************)
C40_CancelFrame ==
    \A R \in RequestIds, caller \in RequesterIds :
        LET r == cancel_request(market, R, caller)
        IN  r.res.ok =>
                /\ r.self.bids = market.bids
                /\ \A Q \in DOMAIN market.requests :
                      Q # R => r.self.requests[Q] = market.requests[Q]
                /\ DOMAIN r.self.requests = DOMAIN market.requests
                /\ Unstatused(r.self.requests[R]) = Unstatused(market.requests[R])
                /\ r.self.responses = market.responses
                /\ r.self.verifications = market.verifications
                /\ r.self.provers = market.provers
                /\ r.self.stats = market.stats

\* a request in progress with an Accepted bid is cancelled while the ledger
\* holds another request and a response
C40_Witness ==
    \E R \in DOMAIN market.bids :
        /\ market.requests[R].status = "InProgress"
        /\ BidsWith(market, R, "Accepted") # {}
        /\ DOMAIN market.requests # {R}
        /\ market.responses # EmptyMap
        /\ cancel_request(market, R, market.requests[R].requester_id).res.ok

====
